---- MODULE Spec2Model ----
(***************************************************************************)
(* Model of the Revenue Timeseries Explorer (streamlit_app.py and utils):  *)
(* the chart-source sanitizer, the exec scope of generated chart source,   *)
(* the cached SQL producer, the result renderer with its retry loop, and   *)
(* the turn loop that keeps the conversation history.                      *)
(***************************************************************************)
EXTENDS Integers, Sequences, FiniteSets, TLC

VARIABLES
    \* --- sanitize_plotly_code (chart_utils.py) ---
    raw_code,        \* the input string, a sequence of characters
    clean_code,      \* sanitize_plotly_code(raw_code)
    clean_again,     \* sanitize_plotly_code(clean_code)
    sanPc,           \* "input" | "once" | "twice"
    \* --- execute_plotly_code (chart_utils.py) ---
    code,            \* the sanitized source, a sequence of statements
    ip,              \* index of the next statement exec() runs
    local_vars,      \* the dict passed to exec() as locals
    exec_globals,    \* the dict passed to exec() as globals
    module_globals,  \* the namespace of the module that calls exec()
    execStatus,      \* "idle" | "running" | "raised" | "returned"
    \* --- the application (streamlit_app.py) ---
    messages,           \* st.session_state.messages
    active_suggestion,  \* st.session_state.active_suggestion
    dfCache,            \* st.cache_data store of get_cached_df
    chartCache,         \* st.cache_data store of get_chart_code
    summaryCache,       \* st.cache_data store of get_summary
    pc,                 \* position of the script run
    event,              \* the widget input that triggered this run
    caller,             \* which call of process_message is running
    mi,                 \* replay loop index into messages (1-based)
    ctx,                \* "replay" | "turn": who called render_message
    items,              \* content list render_message iterates
    ii,                 \* index of the item being rendered (1-based)
    df,                 \* the DataFrame of the SQL item being rendered
    attempt,            \* loop variable of the chart retry loop
    plotly_code,        \* source returned by the last get_chart_code call
    fig,                \* figure of display_data_and_chart
    chart_success,      \* flag of display_data_and_chart
    run,                \* what the current display_data_and_chart run did
    rendered,           \* what render_message showed for each item so far
    turn,               \* what the current process_message call did
    lastCall,           \* the latest get_cached_df call
    sqlLog,             \* statements passed to get_cached_df so far
    turns               \* number of process_message calls so far

sanVars == <<raw_code, clean_code, clean_again, sanPc>>

execVars == <<code, ip, local_vars, exec_globals, module_globals, execStatus>>

appVars == <<messages, active_suggestion, dfCache, chartCache, summaryCache,
             pc, event, caller, mi, ctx, items, ii, df, attempt, plotly_code,
             fig, chart_success, run, rendered, turn, lastCall, sqlLog, turns>>

vars == <<sanVars, execVars, appVars>>

----------------------------------------------------------------------------
(* Strings are sequences of one-character strings.                         *)

\* the literal "fig.show()" of chart_utils.py line 13
FIG_SHOW == <<"f", "i", "g", ".", "s", "h", "o", "w", "(", ")">>

\* the characters str.strip() removes at both ends
IsSpace(c) == c \in {" ", "\n", "\t"}

Drop(s, n) == SubSeq(s, n + 1, Len(s))

StartsWith(s, p) == Len(s) >= Len(p) /\ SubSeq(s, 1, Len(p)) = p

\* s contains p as a substring
Contains(s, p) == \E i \in 1..(Len(s) - Len(p) + 1) : SubSeq(s, i, i + Len(p) - 1) = p

\* str.replace(old, ""): one left-to-right pass over non-overlapping matches
RECURSIVE Replace(_, _)
Replace(s, old) ==
    IF s = <<>> THEN <<>>
    ELSE IF StartsWith(s, old) THEN Replace(Drop(s, Len(old)), old)
    ELSE <<Head(s)>> \o Replace(Tail(s), old)

RECURSIVE LStrip(_)
LStrip(s) == IF s # <<>> /\ IsSpace(Head(s)) THEN LStrip(Tail(s)) ELSE s

RECURSIVE RStrip(_)
RStrip(s) == IF s # <<>> /\ IsSpace(s[Len(s)]) THEN RStrip(SubSeq(s, 1, Len(s) - 1)) ELSE s

Strip(s) == RStrip(LStrip(s))

\* raw_code.replace("fig.show()", "").strip()
sanitize_plotly_code(raw) == Strip(Replace(raw, FIG_SHOW))

SanIdle ==
    /\ raw_code = <<>>
    /\ clean_code = <<>>
    /\ clean_again = <<>>
    /\ sanPc = "input"

----------------------------------------------------------------------------
(* exec(code, {}, local_vars): name resolution of the generated source.     *)
(* A source is a sequence of statements                                     *)
(*   [op |-> "load",   name |-> n]            an expression reading n       *)
(*   [op |-> "store",  name |-> n, val |-> v] n = v                         *)
(*   [op |-> "gstore", name |-> n, val |-> v] global n; n = v               *)

Unbound == "<unbound>"

Names == {"df", "px", "go", "fig", "pd", "len"}

\* the builtins namespace: exec() adds __builtins__ to a globals dict
\* that lacks it
BUILTINS == [n \in Names |-> IF n = "len" THEN "builtin len" ELSE Unbound]

\* the module namespace of chart_utils.py (imports of lines 1-4)
MODULE_GLOBALS ==
    [n \in Names |->
        CASE n = "px" -> "plotly.express"
          [] n = "go" -> "plotly.graph_objects"
          [] n = "pd" -> "pandas"
          [] OTHER    -> Unbound]

\* local_vars = {"df": df, "px": px, "go": go}
InitialLocals(frame) ==
    [n \in Names |->
        CASE n = "df" -> frame
          [] n = "px" -> "plotly.express"
          [] n = "go" -> "plotly.graph_objects"
          [] OTHER    -> Unbound]

\* the {} passed as globals
EmptyDict == [n \in Names |-> Unbound]

\* a lookup that also falls back on the namespace of the calling module
LookupInherited(locals, globals, n) ==
    IF locals[n] # Unbound THEN locals[n]
    ELSE IF globals[n] # Unbound THEN globals[n]
    ELSE IF MODULE_GLOBALS[n] # Unbound THEN MODULE_GLOBALS[n]
    ELSE BUILTINS[n]

\* a name read by code run with distinct locals and globals:
\* locals, then globals, then builtins, else NameError
Lookup(locals, globals, n) ==
    IF locals[n] # Unbound THEN locals[n]
    ELSE IF globals[n] # Unbound THEN globals[n]
    ELSE BUILTINS[n]

\* one statement of the source run by exec(); e is [locals, globals, raised]
ExecStmt(e, stmt) ==
    CASE stmt.op = "load" ->
            IF Lookup(e.locals, e.globals, stmt.name) = Unbound
            THEN [e EXCEPT !.raised = TRUE]
            ELSE e
      [] stmt.op = "store" ->
            [e EXCEPT !.locals = [@ EXCEPT ![stmt.name] = stmt.val]]
      [] stmt.op = "gstore" ->
            [e EXCEPT !.globals = [@ EXCEPT ![stmt.name] = stmt.val]]

RECURSIVE ExecFrom(_, _, _)
ExecFrom(e, src, i) ==
    IF i > Len(src) \/ e.raised THEN e
    ELSE ExecFrom(ExecStmt(e, src[i]), src, i + 1)

\* execute_plotly_code(df, code) after sanitizing: "raise" for an exception
\* of exec() or the ValueError of a missing fig, else the value bound to fig
execute_plotly_code(frame, src) ==
    LET e == ExecFrom([locals |-> InitialLocals(frame), globals |-> EmptyDict,
                       raised |-> FALSE], src, 1)
    IN  IF e.raised THEN "raise"
        ELSE IF e.locals["fig"] \in {Unbound, "None"} THEN "raise"
        ELSE e.locals["fig"]

(* Sources of the exec scope specification: all programs of at most        *)
(* MaxStmts statements.                                                    *)
MaxStmts == 2

Statements ==
    [op : {"load"}, name : Names]
    \cup [op : {"store"}, name : {"fig", "pd"}, val : {"Figure", "None"}]
    \cup [op : {"gstore"}, name : {"pd"}, val : {"Figure"}]

Programs == UNION { [1..n -> Statements] : n \in 0..MaxStmts }

ExecIdle ==
    /\ code = <<>>
    /\ ip = 1
    /\ local_vars = EmptyDict
    /\ exec_globals = EmptyDict
    /\ module_globals = MODULE_GLOBALS
    /\ execStatus = "idle"

\* lines 26-28: the source and the scope exec() starts from
ExecDraw ==
    /\ code \in Programs
    /\ ip = 1
    /\ local_vars = InitialLocals("DataFrame")
    /\ exec_globals = EmptyDict
    /\ module_globals = MODULE_GLOBALS
    /\ execStatus = "running"

\* line 29: exec() runs the next statement of the source
ExecStep ==
    /\ execStatus = "running"
    /\ ip <= Len(code)
    /\ LET e == ExecStmt([locals |-> local_vars, globals |-> exec_globals,
                          raised |-> FALSE], code[ip])
       IN  /\ local_vars' = e.locals
           /\ exec_globals' = e.globals
           /\ execStatus' = IF e.raised THEN "raised" ELSE "running"
           /\ ip' = IF e.raised THEN ip ELSE ip + 1
    /\ UNCHANGED <<code, module_globals>>

\* lines 30-33: fig = local_vars.get("fig"); ValueError when it is None
ExecFinish ==
    /\ execStatus = "running"
    /\ ip > Len(code)
    /\ execStatus' = IF local_vars["fig"] \in {Unbound, "None"}
                     THEN "raised" ELSE "returned"
    /\ UNCHANGED <<code, ip, local_vars, exec_globals, module_globals>>

----------------------------------------------------------------------------
(* Inputs of the sanitizer: concatenations of at most MaxPieces fragments. *)

MaxPieces == 3

Fragments ==
    { FIG_SHOW,
      <<"f", "i", "g", ".">>,
      <<"s", "h", "o", "w", "(", ")">>,
      <<"x">>,
      <<" ">>,
      <<"\n">> }

RECURSIVE Concats(_)
Concats(n) ==
    IF n = 0 THEN { <<>> }
    ELSE LET shorter == Concats(n - 1)
         IN  shorter \cup { s \o f : s \in shorter, f \in Fragments }

SanDraw ==
    /\ raw_code \in Concats(MaxPieces)
    /\ clean_code = <<>>
    /\ clean_again = <<>>
    /\ sanPc = "input"

SanitizeOnce ==
    /\ sanPc = "input"
    /\ clean_code' = sanitize_plotly_code(raw_code)
    /\ sanPc' = "once"
    /\ UNCHANGED <<raw_code, clean_again>>

SanitizeAgain ==
    /\ sanPc = "once"
    /\ clean_again' = sanitize_plotly_code(clean_code)
    /\ sanPc' = "twice"
    /\ UNCHANGED <<raw_code, clean_code>>

----------------------------------------------------------------------------
(* The application: data, the three st.cache_data stores, the services.    *)

None == "None"

\* bounds of the model
MaxTurns == 2
MaxRows == 2

\* streamlit_app.py line 20
MAX_SAMPLE_ROWS == 10

\* llm_utils.py line 126
FALLBACK == "Summary is unavailable at the moment."

SQLS == {"sql1", "sql2"}

\* row counts of the results of the backing store: no row, a single row,
\* several rows
ROW_COUNTS == {0, 1, MaxRows}

\* results of the backing store: the statement fixes the columns, the store
\* fixes the number of rows at the time of the query
DataFrames == [schema : SQLS, rows : ROW_COUNTS]

NoFrame == [schema |-> "sql1", rows |-> 0]

TextItem(t) == [type |-> "text", text |-> t]
SqlItem(q) == [type |-> "sql", statement |-> q]
SuggestionsItem(l) == [type |-> "suggestions", suggestions |-> l]

\* questions typed into st.chat_input
PROMPTS == {"q1"}

\* content lists the query service answers with
RESPONSES ==
    { <<SqlItem("sql1"), TextItem("a1"), SqlItem("sql1")>>,
      <<TextItem("a2"), SuggestionsItem(<<"q2">>), SqlItem("sql2")>> }

\* resp["status"] of the query service
STATUSES == {200, 400, 500}

\* sources the completion service returns for the chart prompt
GOOD_SOURCE == << [op |-> "load", name |-> "go"],
                  [op |-> "store", name |-> "fig", val |-> "Figure"] >>
BADNAME_SOURCE == << [op |-> "load", name |-> "pd"],
                     [op |-> "store", name |-> "fig", val |-> "Figure"] >>

CHART_SOURCES == {GOOD_SOURCE, BADNAME_SOURCE}

SUMMARY_TEXTS == {"generated summary"}

\* what Complete(model, prompt, options) does: it raises or returns a text
ChartOutcomes ==
    {[raised |-> TRUE, text |-> <<>>]}
    \cup {[raised |-> FALSE, text |-> src] : src \in CHART_SOURCES}

SummaryOutcomes ==
    {[raised |-> TRUE, text |-> None]}
    \cup {[raised |-> FALSE, text |-> t] : t \in SUMMARY_TEXTS}

\* what session.sql(sql).to_pandas() does: it raises or returns a frame
StoreOutcomes(q) ==
    {[raised |-> TRUE, frame |-> NoFrame]}
    \cup {[raised |-> FALSE, frame |-> d] : d \in {f \in DataFrames : f.schema = q}}

Min(a, b) == IF a < b THEN a ELSE b

Append2(s, a, b) == Append(Append(s, a), b)

(* st.cache_data: a store of [key, val] entries.  A call whose key is in    *)
(* the store returns the stored value and does not run the function; a     *)
(* call that runs the function stores what it returns, and stores nothing  *)
(* when it raises.                                                         *)
CacheHas(cache, k) == \E en \in cache : en.key = k

CacheGet(cache, k) == (CHOOSE en \in cache : en.key = k).val

\* a store that keeps nothing
CachePutNothing(cache, k, v) == cache

CachePut(cache, k, v) == cache \cup {[key |-> k, val |-> v]}

\* build_chart_sample and schema_dict: all columns, the first max_rows rows
ChartKey(d) == [schema |-> d.schema, sample |-> Min(d.rows, MAX_SAMPLE_ROWS)]

Upper(role) == IF role = "user" THEN "USER" ELSE "ASSISTANT"

\* the "ROLE: text" lines of one message
RECURSIVE LinesOf(_, _)
LinesOf(role, content) ==
    IF content = <<>> THEN <<>>
    ELSE IF Head(content).type = "text"
         THEN <<<<Upper(role), Head(content).text>>>> \o LinesOf(role, Tail(content))
         ELSE LinesOf(role, Tail(content))

\* join_chat_history()
RECURSIVE join_chat_history(_)
join_chat_history(msgs) ==
    IF msgs = <<>> THEN <<>>
    ELSE LinesOf(Head(msgs).role, Head(msgs).content) \o join_chat_history(Tail(msgs))

\* the cache key of get_summary: the full frame and the chat history
SummaryKey(d, msgs) == [frame |-> d, history |-> join_chat_history(msgs)]

\* send_message line 62, with the boundary moved
RequestOkBelow500(status) == status < 500

\* send_message line 62
RequestOk(status) == status < 400

\* display_data_and_chart line 111 with the boundary off by one
IsTableOnlyBelowOne(d) == d.rows < 1

\* display_data_and_chart line 111: no rows or a single row (df is never
\* None here: get_cached_df returns a frame or raises)
IsTableOnly(d) == d.rows <= 1

\* a retry loop that runs once more
HasNextAttemptOneMore(a) == a < 3

\* the loop for attempt in range(3): after a failed attempt a, is there
\* another one
HasNextAttempt(a) == a < 2

\* a loop exit that leaves the function when the chart failed
AfterChartLoopReturning(success) == IF success THEN "chart" ELSE "displayed"

\* lines 149-153: whatever the loop's outcome, control reaches line 153
AfterChartLoop(success) == "chart"

\* a get_summary that lets the exception through
SummaryResultUncaught(outcome) == IF outcome.raised THEN "exception" ELSE outcome.text

\* get_summary lines 123-126
SummaryResult(outcome) == IF outcome.raised THEN FALLBACK ELSE outcome.text

\* get_chart_code lines 65-68: "" when Complete raises
ChartCodeResult(outcome) == IF outcome.raised THEN <<>> ELSE outcome.text

\* a render_sql_item whose failure leaves the loop of render_message
AfterSqlFailureAborting(i, n) == n + 1

\* render_sql_item lines 204-206 return to the loop of render_message,
\* which goes on with the next item
AfterSqlFailure(i, n) == i + 1

NoEvent == [kind |-> "none", prompt |-> None, msg |-> 0, idx |-> 0]

NoRun == [chartCalls |-> 0, chartCompletes |-> 0, summaryCalls |-> 0,
          summaryCompletes |-> 0, table |-> FALSE, chart |-> "none",
          summary |-> None, codes |-> <<>>]

NoTurn == [before |-> <<>>, prompt |-> None, status |-> 0, sqlCalls |-> 0,
           llmCalls |-> 0, error |-> FALSE, sqlFailedAt |-> {}, requests |-> 0]

NoCall == [sql |-> None, earlier |-> {}, executed |-> FALSE,
           raised |-> FALSE, result |-> NoFrame]

AppIdle ==
    /\ messages = <<>>
    /\ active_suggestion = None
    /\ dfCache = {}
    /\ chartCache = {}
    /\ summaryCache = {}
    /\ pc = "idle"
    /\ event = NoEvent
    /\ caller = None
    /\ mi = 1
    /\ ctx = None
    /\ items = <<>>
    /\ ii = 1
    /\ df = NoFrame
    /\ attempt = 0
    /\ plotly_code = <<>>
    /\ fig = None
    /\ chart_success = FALSE
    /\ run = NoRun
    /\ rendered = <<>>
    /\ turn = NoTurn
    /\ lastCall = NoCall
    /\ sqlLog = {}
    /\ turns = 0

----------------------------------------------------------------------------
(* The result renderer: render_message, render_sql_item and                *)
(* display_data_and_chart, one action per step.                            *)

\* the locals of display_data_and_chart, gone when it returns
RenderLocalsReset ==
    /\ df' = NoFrame
    /\ attempt' = 0
    /\ plotly_code' = <<>>
    /\ fig' = None
    /\ chart_success' = FALSE
    /\ run' = NoRun

\* message_index of render_message: msg_index of the replay loop (0-based),
\* len(st.session_state.messages) in process_message
MessageIndex == IF ctx = "replay" THEN mi - 1 ELSE Len(messages)

\* the suggestion whose button st.button reports as clicked in this run
ClickedIn(item) ==
    { item.suggestions[k] : k \in { j \in 1..Len(item.suggestions) :
          event.kind = "click" /\ event.msg = MessageIndex /\ event.idx = j - 1 } }

\* render_message lines 222-229: a text or a suggestions item
RenderPlainItem ==
    /\ pc = "render"
    /\ ii <= Len(items)
    /\ items[ii].type \in {"text", "suggestions"}
    /\ active_suggestion' =
          IF items[ii].type = "suggestions" /\ ClickedIn(items[ii]) # {}
          THEN CHOOSE sg \in ClickedIn(items[ii]) : TRUE
          ELSE active_suggestion
    /\ rendered' = Append(rendered, items[ii].type)
    /\ ii' = ii + 1
    /\ lastCall' = NoCall
    /\ UNCHANGED <<messages, dfCache, chartCache, summaryCache, pc, event,
                   caller, mi, ctx, items, df, attempt, plotly_code, fig,
                   chart_success, run, turn, sqlLog, turns>>

\* render_sql_item lines 195-209: get_cached_df(sql), then either the inline
\* error or the call of display_data_and_chart
RenderSqlItem ==
    /\ pc = "render"
    /\ ii <= Len(items)
    /\ items[ii].type = "sql"
    /\ LET q == items[ii].statement
           hit == CacheHas(dfCache, q)
           outcomes == IF hit
                       THEN {[raised |-> FALSE, frame |-> CacheGet(dfCache, q)]}
                       ELSE StoreOutcomes(q)
       IN  \E o \in outcomes :
             /\ lastCall' = [sql |-> q,
                             earlier |-> {en \in sqlLog : en.sql = q},
                             executed |-> ~hit,
                             raised |-> o.raised,
                             result |-> o.frame]
             /\ sqlLog' = sqlLog \cup {[sql |-> q, raised |-> o.raised, frame |-> o.frame]}
             /\ dfCache' = IF hit \/ o.raised THEN dfCache ELSE CachePut(dfCache, q, o.frame)
             /\ turn' = IF ctx = "turn"
                        THEN [turn EXCEPT !.sqlCalls = @ + 1,
                                          !.sqlFailedAt = IF o.raised THEN @ \cup {ii} ELSE @]
                        ELSE turn
             /\ IF o.raised
                THEN /\ rendered' = Append(rendered, "sql_error")
                     /\ ii' = AfterSqlFailure(ii, Len(items))
                     /\ pc' = "render"
                     /\ df' = df
                ELSE /\ df' = o.frame
                     /\ pc' = "display"
                     /\ UNCHANGED <<rendered, ii>>
    /\ UNCHANGED <<messages, active_suggestion, chartCache, summaryCache, event,
                   caller, mi, ctx, items, attempt, plotly_code, fig,
                   chart_success, run, turns>>

\* display_data_and_chart lines 110-132: the table, and the decision between
\* the table alone and the chart and summary
DisplayStart ==
    /\ pc = "display"
    /\ run' = [NoRun EXCEPT !.table = TRUE]
    /\ attempt' = 0
    /\ chart_success' = FALSE
    /\ fig' = None
    /\ pc' = IF IsTableOnly(df) THEN "displayed" ELSE "attempt"
    /\ UNCHANGED <<messages, active_suggestion, dfCache, chartCache, summaryCache,
                   event, caller, mi, ctx, items, ii, df, plotly_code, rendered,
                   turn, lastCall, sqlLog, turns>>

\* lines 135-151: one pass of the retry loop, get_chart_code through the
\* cache and execute_plotly_code on what it returns
ChartAttempt ==
    /\ pc = "attempt"
    /\ LET k == ChartKey(df)
           hit == CacheHas(chartCache, k)
           sources == IF hit THEN {CacheGet(chartCache, k)}
                      ELSE {ChartCodeResult(o) : o \in ChartOutcomes}
       IN  \E src \in sources :
             LET result == execute_plotly_code("DataFrame", src)
                 ok == result # "raise"
             IN  /\ chartCache' = IF hit THEN chartCache ELSE CachePut(chartCache, k, src)
                 /\ plotly_code' = src
                 /\ run' = [run EXCEPT !.chartCalls = @ + 1,
                                       !.chartCompletes = IF hit THEN @ ELSE @ + 1,
                                       !.codes = Append(@, src)]
                 /\ turn' = IF ctx = "turn" THEN [turn EXCEPT !.llmCalls = @ + 1] ELSE turn
                 /\ fig' = IF ok THEN result ELSE fig
                 /\ chart_success' = ok
                 /\ IF ~ok /\ HasNextAttempt(attempt)
                    THEN /\ attempt' = attempt + 1
                         /\ pc' = "attempt"
                    ELSE /\ attempt' = attempt
                         /\ pc' = AfterChartLoop(ok)
    /\ UNCHANGED <<messages, active_suggestion, dfCache, summaryCache, event,
                   caller, mi, ctx, items, ii, df, rendered, lastCall, sqlLog,
                   turns>>

\* lines 153-161: the figure with its source, or the notice
ChartRender ==
    /\ pc = "chart"
    /\ run' = [run EXCEPT !.chart = IF ~chart_success \/ fig = None
                                    THEN "notice" ELSE "figure"]
    /\ pc' = "summarize"
    /\ UNCHANGED <<messages, active_suggestion, dfCache, chartCache, summaryCache,
                   event, caller, mi, ctx, items, ii, df, attempt, plotly_code,
                   fig, chart_success, rendered, turn, lastCall, sqlLog, turns>>

\* lines 163-184: get_summary through the cache, then st.markdown(summary)
Summarize ==
    /\ pc = "summarize"
    /\ LET k == SummaryKey(df, messages)
           hit == CacheHas(summaryCache, k)
           texts == IF hit THEN {CacheGet(summaryCache, k)}
                    ELSE {SummaryResult(o) : o \in SummaryOutcomes}
       IN  \E t \in texts :
             /\ summaryCache' = IF hit THEN summaryCache ELSE CachePut(summaryCache, k, t)
             /\ run' = [run EXCEPT !.summaryCalls = @ + 1,
                                   !.summaryCompletes = IF hit THEN @ ELSE @ + 1,
                                   !.summary = t]
    /\ turn' = IF ctx = "turn" THEN [turn EXCEPT !.llmCalls = @ + 1] ELSE turn
    /\ pc' = "displayed"
    /\ UNCHANGED <<messages, active_suggestion, dfCache, chartCache, event, caller,
                   mi, ctx, items, ii, df, attempt, plotly_code, fig,
                   chart_success, rendered, lastCall, sqlLog, turns>>

\* display_data_and_chart and render_sql_item return to render_message
ItemDone ==
    /\ pc = "displayed"
    /\ rendered' = Append(rendered, IF run.summary # None THEN "full" ELSE "table")
    /\ ii' = ii + 1
    /\ pc' = "render"
    /\ lastCall' = NoCall
    /\ RenderLocalsReset
    /\ UNCHANGED <<messages, active_suggestion, dfCache, chartCache, summaryCache,
                   event, caller, mi, ctx, items, turn, sqlLog, turns>>

----------------------------------------------------------------------------
(* The script run: main() and process_message.                             *)

\* the suggestion buttons a user can click: (message index, button index),
\* both 0-based as in the widget key of line 228
Buttons ==
    UNION { UNION { { <<m - 1, j - 1>> : j \in 1..Len(messages[m].content[k].suggestions) } :
                    k \in { n \in 1..Len(messages[m].content) :
                               messages[m].content[n].type = "suggestions" } } :
            m \in 1..Len(messages) }

Events ==
    {[kind |-> "typed", prompt |-> p, msg |-> 0, idx |-> 0] : p \in PROMPTS}
    \cup {[kind |-> "click", prompt |-> None, msg |-> b[1], idx |-> b[2]] : b \in Buttons}

\* a question is typed or a suggestion button is clicked: the script reruns
\* (main, lines 271-297)
MainStart ==
    /\ pc = "idle"
    /\ turns < MaxTurns
    /\ \E e \in Events : event' = e
    /\ mi' = 1
    /\ pc' = "replay"
    /\ UNCHANGED <<messages, active_suggestion, dfCache, chartCache, summaryCache,
                   caller, ctx, items, ii, df, attempt, plotly_code, fig,
                   chart_success, run, rendered, turn, lastCall, sqlLog, turns>>

\* lines 300-302: the replay loop calls render_message on the next message,
\* or ends
ReplayNext ==
    /\ pc = "replay"
    /\ IF mi <= Len(messages)
       THEN /\ items' = messages[mi].content
            /\ ii' = 1
            /\ ctx' = "replay"
            /\ pc' = "render"
       ELSE /\ items' = <<>>
            /\ ii' = 1
            /\ ctx' = None
            /\ pc' = "input"
    /\ rendered' = <<>>
    /\ UNCHANGED <<messages, active_suggestion, dfCache, chartCache, summaryCache,
                   event, caller, mi, df, attempt, plotly_code, fig,
                   chart_success, run, turn, lastCall, sqlLog, turns>>

\* render_message has run through its items and returns to its caller
RenderEnd ==
    /\ pc = "render"
    /\ ii > Len(items)
    /\ IF ctx = "replay"
       THEN /\ mi' = mi + 1
            /\ pc' = "replay"
       ELSE /\ mi' = mi
            /\ pc' = "append"
    /\ lastCall' = NoCall
    /\ UNCHANGED <<messages, active_suggestion, dfCache, chartCache, summaryCache,
                   event, caller, ctx, items, ii, df, attempt, plotly_code, fig,
                   chart_success, run, rendered, turn, sqlLog, turns>>

\* process_message lines 244-250: the user turn is appended and echoed
ProcessMessageStart(prompt, who) ==
    /\ messages' = Append(messages, [role |-> "user", content |-> <<TextItem(prompt)>>])
    /\ turn' = [NoTurn EXCEPT !.before = messages, !.prompt = prompt]
    /\ caller' = who
    /\ turns' = turns + 1
    /\ pc' = "send"

\* main lines 305-306
ProcessInput ==
    /\ pc = "input"
    /\ IF event.kind = "typed"
       THEN ProcessMessageStart(event.prompt, "input")
       ELSE /\ pc' = "suggestion"
            /\ UNCHANGED <<messages, turn, caller, turns>>
    /\ UNCHANGED <<active_suggestion, dfCache, chartCache, summaryCache, event, mi,
                   ctx, items, ii, df, attempt, plotly_code, fig, chart_success,
                   run, rendered, lastCall, sqlLog>>

\* process_message lines 253-263 with send_message: the request fails and the
\* turn ends with the inline error, or the answer is handed to render_message
SendMessage ==
    /\ pc = "send"
    /\ \E status \in STATUSES, resp \in RESPONSES :
          IF RequestOk(status)
          THEN /\ turn' = [turn EXCEPT !.status = status, !.requests = @ + 1]
               /\ items' = resp
               /\ ii' = 1
               /\ ctx' = "turn"
               /\ rendered' = <<>>
               /\ pc' = "render"
          ELSE /\ turn' = [turn EXCEPT !.status = status, !.requests = @ + 1,
                                       !.error = TRUE]
               /\ pc' = "returned"
               /\ UNCHANGED <<items, ii, ctx, rendered>>
    /\ UNCHANGED <<messages, active_suggestion, dfCache, chartCache, summaryCache,
                   event, caller, mi, df, attempt, plotly_code, fig,
                   chart_success, run, lastCall, sqlLog, turns>>

\* an append that overwrites the last turn of the history
AppendAssistantOverwriting ==
    /\ pc = "append"
    /\ messages' = Append(SubSeq(messages, 1, Len(messages) - 1),
                          [role |-> "assistant", content |-> items])
    /\ pc' = "returned"
    /\ UNCHANGED <<active_suggestion, dfCache, chartCache, summaryCache, event,
                   caller, mi, ctx, items, ii, df, attempt, plotly_code, fig,
                   chart_success, run, rendered, turn, lastCall, sqlLog, turns>>

\* process_message line 266
AppendAssistant ==
    /\ pc = "append"
    /\ messages' = Append(messages, [role |-> "assistant", content |-> items])
    /\ pc' = "returned"
    /\ UNCHANGED <<active_suggestion, dfCache, chartCache, summaryCache, event,
                   caller, mi, ctx, items, ii, df, attempt, plotly_code, fig,
                   chart_success, run, rendered, turn, lastCall, sqlLog, turns>>

\* the script run is over
RunEnd ==
    /\ event' = NoEvent
    /\ caller' = None
    /\ mi' = 1
    /\ ctx' = None
    /\ items' = <<>>
    /\ ii' = 1
    /\ rendered' = <<>>
    /\ turn' = NoTurn
    /\ pc' = "idle"

\* process_message has returned: to line 309 of main, or to line 311, which
\* clears the suggestion and ends the run
ProcessReturn ==
    /\ pc = "returned"
    /\ IF caller = "input"
       THEN /\ pc' = "suggestion"
            /\ turn' = NoTurn
            /\ items' = <<>>
            /\ ii' = 1
            /\ ctx' = None
            /\ rendered' = <<>>
            /\ UNCHANGED <<active_suggestion, event, caller, mi>>
       ELSE /\ active_suggestion' = None
            /\ RunEnd
    /\ UNCHANGED <<messages, dfCache, chartCache, summaryCache, df, attempt,
                   plotly_code, fig, chart_success, run, lastCall, sqlLog, turns>>

\* main lines 309-310
ProcessSuggestion ==
    /\ pc = "suggestion"
    /\ IF active_suggestion # None
       THEN /\ ProcessMessageStart(active_suggestion, "suggestion")
            /\ UNCHANGED <<event, mi, ctx, items, ii, rendered>>
       ELSE /\ RunEnd
            /\ UNCHANGED <<messages, turns>>
    /\ UNCHANGED <<active_suggestion, dfCache, chartCache, summaryCache, df,
                   attempt, plotly_code, fig, chart_success, run, lastCall, sqlLog>>

Next ==
    \/ MainStart /\ UNCHANGED <<sanVars, execVars>>
    \/ ReplayNext /\ UNCHANGED <<sanVars, execVars>>
    \/ RenderPlainItem /\ UNCHANGED <<sanVars, execVars>>
    \/ RenderSqlItem /\ UNCHANGED <<sanVars, execVars>>
    \/ DisplayStart /\ UNCHANGED <<sanVars, execVars>>
    \/ ChartAttempt /\ UNCHANGED <<sanVars, execVars>>
    \/ ChartRender /\ UNCHANGED <<sanVars, execVars>>
    \/ Summarize /\ UNCHANGED <<sanVars, execVars>>
    \/ ItemDone /\ UNCHANGED <<sanVars, execVars>>
    \/ RenderEnd /\ UNCHANGED <<sanVars, execVars>>
    \/ ProcessInput /\ UNCHANGED <<sanVars, execVars>>
    \/ SendMessage /\ UNCHANGED <<sanVars, execVars>>
    \/ AppendAssistant /\ UNCHANGED <<sanVars, execVars>>
    \/ ProcessReturn /\ UNCHANGED <<sanVars, execVars>>
    \/ ProcessSuggestion /\ UNCHANGED <<sanVars, execVars>>

Init == AppIdle /\ SanIdle /\ ExecIdle

Spec == Init /\ [][Next]_vars


----------------------------------------------------------------------------
(* The specifications.                                                     *)

NextSan ==
    \/ SanitizeOnce /\ UNCHANGED <<execVars, appVars>>
    \/ SanitizeAgain /\ UNCHANGED <<execVars, appVars>>

InitSan == SanDraw /\ ExecIdle /\ AppIdle

SpecSan == InitSan /\ [][NextSan]_vars

NextExec ==
    \/ ExecStep /\ UNCHANGED <<sanVars, appVars>>
    \/ ExecFinish /\ UNCHANGED <<sanVars, appVars>>

InitExec == ExecDraw /\ SanIdle /\ AppIdle

SpecExec == InitExec /\ [][NextExec]_vars

----------------------------------------------------------------------------
\* C4: sanitize_plotly_code is total and idempotent: its output holds no
\* occurrence of fig.show(), and sanitizing the output again changes nothing.
C4_SanitizeRemovesAllAndIsIdempotent ==
    /\ (sanPc # "input" => ~Contains(clean_code, FIG_SHOW))
    /\ (sanPc = "twice" => clean_again = clean_code)

----------------------------------------------------------------------------
\* the three names execute_plotly_code provides
PROVIDED == {"df", "px", "go"}

\* names the statements before position i of src assign
StoredBefore(src, i) ==
    { src[j].name : j \in { k \in 1..(i - 1) : src[k].op \in {"store", "gstore"} } }

----------------------------------------------------------------------------
(* The renderer: claims C1, C2, C3, C8, C9.                                *)

InChartOrSummary == pc \in {"attempt", "chart", "summarize"}

\* C1: a result with 0 or 1 rows ends in the table alone: the table is shown
\* and neither get_chart_code nor get_summary is called, so Complete is never
\* invoked for it.
C1_TableOnlyMakesNoCalls ==
    /\ (InChartOrSummary => df.rows > 1)
    /\ (pc = "displayed" /\ df.rows <= 1 =>
          /\ run.table
          /\ run.chart = "none"
          /\ run.summary = None
          /\ run.chartCalls = 0 /\ run.chartCompletes = 0
          /\ run.summaryCalls = 0 /\ run.summaryCompletes = 0)

\* a single-row result has been displayed
C1_Witness == pc = "displayed" /\ df.rows = 1 /\ run.table /\ run.chartCalls = 0

\* C2: a result with more than one row gets at least one chart attempt and
\* exactly one get_summary call, whether the chart succeeded or failed.
C2_ChartAttemptedSummaryOnce ==
    /\ run.summaryCalls <= 1
    /\ (pc = "displayed" /\ df.rows > 1 =>
          run.chartCalls >= 1 /\ run.summaryCalls = 1)

\* a run whose chart failed has called get_summary once
C2_Witness ==
    /\ pc = "displayed" /\ df.rows > 1
    /\ run.chart = "notice" /\ run.summaryCalls = 1

\* C3: at most 3 get_chart_code calls per result, none after a success; when
\* every attempt fails there are exactly 3, the notice is shown and the
\* summary is rendered all the same.
C3_AtMostThreeAttempts ==
    /\ run.chartCalls <= 3
    /\ (pc = "attempt" => ~chart_success /\ run.chartCalls = attempt)
    /\ (pc \in {"chart", "summarize", "displayed"} /\ df.rows > 1 /\ ~chart_success =>
          run.chartCalls = 3)
    /\ (pc \in {"summarize", "displayed"} /\ df.rows > 1 /\ ~chart_success =>
          run.chart = "notice")
    /\ (pc = "displayed" /\ df.rows > 1 /\ ~chart_success => run.summary # None)
    /\ (pc \in {"summarize", "displayed"} /\ chart_success => run.chart = "figure")

\* three attempts failed, the notice and a summary are shown
C3_Witness ==
    /\ pc = "displayed" /\ df.rows > 1 /\ ~chart_success
    /\ run.chartCalls = 3 /\ run.chart = "notice" /\ run.summary # None

\* C8: a failure of summary generation becomes the fallback string: what is
\* shown as the summary of a result with more than one row is always a
\* generated text or the fallback, never the failure.
C8_SummaryOrFallback ==
    /\ run.summary \in {None, FALLBACK} \cup SUMMARY_TEXTS
    /\ (pc = "displayed" /\ df.rows > 1 => run.summary \in {FALLBACK} \cup SUMMARY_TEXTS)
    /\ \A en \in summaryCache : en.val \in {FALLBACK} \cup SUMMARY_TEXTS

\* Complete raised for the summary and the fallback is shown
C8_Witness ==
    /\ pc = "displayed" /\ df.rows > 1
    /\ run.summaryCompletes = 1 /\ run.summary = FALLBACK

\* C9: every chart attempt of a run is its own call of the completion
\* service: as many Complete calls as attempts.
C9_EveryAttemptCallsComplete == run.chartCompletes = run.chartCalls

----------------------------------------------------------------------------
(* The SQL cache: claim C6.                                                *)

\* C6 as stated: a get_cached_df call with the SQL string of any earlier call
\* returns the earlier result without executing, and a call with a new SQL
\* string executes.
C6_AnyEarlierCallIsReused ==
    lastCall.sql # None =>
       /\ (lastCall.earlier # {} =>
             /\ ~lastCall.executed
             /\ ~lastCall.raised
             /\ \A en \in lastCall.earlier : ~en.raised /\ en.frame = lastCall.result)
       /\ (lastCall.earlier = {} => lastCall.executed)

EarlierResults == {en \in lastCall.earlier : ~en.raised}

\* C6 amended: a get_cached_df call with the SQL string of an earlier call
\* that returned a result returns that result without executing; a call
\* whose SQL string no earlier call returned a result for executes.
C6_EarlierResultIsReused ==
    lastCall.sql # None =>
       /\ (EarlierResults # {} =>
             /\ ~lastCall.executed
             /\ ~lastCall.raised
             /\ \A en \in EarlierResults : en.frame = lastCall.result)
       /\ (EarlierResults = {} => lastCall.executed)

\* a repeated statement was answered without executing, after another
\* statement had been executed
C6_Witness ==
    /\ lastCall.sql # None
    /\ EarlierResults # {}
    /\ ~lastCall.executed
    /\ \E en \in sqlLog : en.sql # lastCall.sql

----------------------------------------------------------------------------
(* The turn: claims C7, C10.                                               *)

UserTurn(prompt) == [role |-> "user", content |-> <<TextItem(prompt)>>]

\* C7: a query-service status of 400 or above ends the turn with the inline
\* error after one request: no SQL, chart or summary call, no assistant turn,
\* and the history is the one before the turn plus the user's message.
C7_FailedRequestAbortsTurn ==
    turn.status >= 400 =>
       /\ pc = "returned"
       /\ turn.error
       /\ turn.requests = 1
       /\ turn.sqlCalls = 0
       /\ turn.llmCalls = 0
       /\ messages = Append(turn.before, UserTurn(turn.prompt))

\* a turn after the first one was aborted on status 500
C7_Witness ==
    /\ pc = "returned" /\ turn.status = 500 /\ turn.error
    /\ turn.before # <<>>

\* C10: when the SQL of an item fails, that item shows the error and no
\* table, chart or summary; every other item of the response is rendered,
\* and the assistant turn is appended.
C10_SqlFailureIsLocal ==
    pc = "returned" /\ ~turn.error /\ turn.sqlFailedAt # {} =>
       /\ Len(rendered) = Len(items)
       /\ \A i \in 1..Len(rendered) :
             /\ (i \in turn.sqlFailedAt <=> rendered[i] = "sql_error")
             /\ (items[i].type # "sql" => rendered[i] = items[i].type)
       /\ messages = Append2(turn.before, UserTurn(turn.prompt),
                             [role |-> "assistant", content |-> items])

\* the first SQL item failed and the last one got table, chart and summary
C10_Witness ==
    /\ pc = "returned" /\ ~turn.error
    /\ turn.sqlFailedAt = {1}
    /\ Len(rendered) = 3 /\ rendered[2] = "text" /\ rendered[3] = "full"

----------------------------------------------------------------------------
(* The conversation history: claim C11.                                    *)

\* every assistant turn directly follows a user turn
AssistantFollowsUser ==
    \A i \in 1..Len(messages) :
        messages[i].role = "assistant" =>
            i > 1 /\ messages[i - 1].role = "user"

\* what a finished process_message call has added to the history
TurnAppended ==
    pc = "returned" =>
        IF turn.error
        THEN messages = Append(turn.before, UserTurn(turn.prompt))
        ELSE messages = Append2(turn.before, UserTurn(turn.prompt),
                                [role |-> "assistant", content |-> items])

\* a step leaves the history alone or appends one turn to it: the user turn
\* at the start of process_message, or the assistant turn right after the
\* user turn of the same call
HistoryStep ==
    \/ messages' = messages
    \/ /\ Len(messages') = Len(messages) + 1
       /\ SubSeq(messages', 1, Len(messages)) = messages
       /\ LET m == messages'[Len(messages')]
          IN  \/ /\ m.role = "user"
                 /\ pc' = "send"
                 /\ m = UserTurn(turn'.prompt)
                 /\ turn'.before = messages
              \/ /\ m.role = "assistant"
                 /\ pc' = "returned"
                 /\ ~turn.error
                 /\ messages = Append(turn.before, UserTurn(turn.prompt))

\* C11: the history is append-only: no step removes, reorders or changes a
\* turn; a turn whose request succeeds appends a user turn and then an
\* assistant turn, a failed one appends the user turn alone, so every
\* assistant turn directly follows the user turn that produced it.
C11_HistoryAppendOnly ==
    /\ [](AssistantFollowsUser /\ TurnAppended)
    /\ [][HistoryStep]_vars

\* a clicked suggestion was processed after a typed question: two user turns,
\* each followed by its assistant turn
C11_Witness ==
    /\ pc = "returned" /\ ~turn.error
    /\ Len(messages) = 4
    /\ messages[1] = UserTurn("q1") /\ messages[2].role = "assistant"
    /\ messages[3] = UserTurn("q2") /\ messages[4].role = "assistant"

====
